---- MODULE Spec2Model ----
(***************************************************************************)
(* Model of github.com/jsiebens/operator, file operator.go: the four       *)
(* orchestration entry points (ExecuteLocal, ExecuteRemoteWithPassword,    *)
(* ExecuteRemoteWithPrivateKey, ExecuteRemote), the agent probe            *)
(* privateKeyUsingSSHAgent and the shared connection step executeRemote.   *)
(*                                                                         *)
(* One orchestration call is modelled statement by statement.  The world   *)
(* the call runs against (key file, .pub file, ssh-agent, target host,     *)
(* terminal input, the caller's callback, the result of Close) is fixed in *)
(* env by Init; every combination within the bounds is explored.  Go's     *)
(* defer is modelled by a stack of frames, each with its list of deferred  *)
(* calls, run last-in-first-out when the frame returns or panics.          *)
(***************************************************************************)
EXTENDS Naturals, Sequences, FiniteSets, TLC

\* ------------------------------------------------------------------ bounds
MaxKeys == 2
NumBlobs == 2

Blobs == 1..NumBlobs
Hosts == {"alpha", "beta"}
Ports == {22}

\* ------------------------------------------------------------- environment
KeyPassphrase == "secret"

KeySeqs == UNION {[1..n -> Blobs] : n \in 0..MaxKeys}

\* ssh-agent behind SSH_AUTH_SOCK: not reachable, reachable with List
\* failing, or reachable and listing keys (identities, each a Blob).
Agents ==
    {[status |-> "down", keys |-> << >>], [status |-> "listfail", keys |-> << >>]}
    \cup {[status |-> "up", keys |-> s] : s \in KeySeqs}

\* <privateKey>.pub: absent, not in authorized-key format, or a key line
\* (type, blob, comment).
PubFiles ==
    {[status |-> "missing", blob |-> 0], [status |-> "garbage", blob |-> 0]}
    \cup {[status |-> "ok", blob |-> b] : b \in Blobs}

Envs ==
    [keyFile  : {"missing", "corrupt", "plain", "encrypted"},
     pubFile  : PubFiles,
     agent    : Agents,
     targetUp : BOOLEAN,
     typed    : {"secret", "wrong", ""},
     cb       : {"ok", "err", "panic"},
     close    : {"ok", "err"}]

VARIABLES
    env,        \* the world of this call (never changes)
    pc,         \* position in the code: "idle", "L<line>", "return", "done", "crashed"
    entry,      \* the entry point called
    host, port, \* arguments of the remote entry points
    method,     \* the ssh.AuthMethod handed to the connection step
    sshAgent,   \* ExecuteRemoteWithPrivateKey's local sshAgent (line 52)
    closeAgent, \* ExecuteRemoteWithPrivateKey's local closeAgent (line 52)
    conn,       \* the connection to host:port: "none", "open", "closed"
    agentSock,  \* the unix socket to the agent: "none", "open", "closed"
    stack,      \* call frames, innermost last, each with its deferred calls
    ret,        \* the error value being returned (<< >> is nil)
    panicking,  \* a panic is unwinding the stack
    log         \* the externally visible events so far, in order

vars == <<env, pc, entry, host, port, method, sshAgent, closeAgent, conn,
          agentSock, stack, ret, panicking, log>>

\* ------------------------------------------------------------------ errors
\* An error is the chain of its messages, outermost first; nil is << >>.
Nil == << >>

CallbackErr == <<"callback failed">>
CloseErr == <<"close failed">>
DialErr == <<"dial failed">>
SockErr == <<"dial unix: no such file">>
FileErr == <<"open: no such file or directory">>
ParseErr == <<"ssh: no key found">>
PassphraseErr == <<"x509: decryption password incorrect">>

\* errors.Wrapf(err, format, arg) with one %s in format, given as the text
\* before and after it.
Wrapf(err, before, arg, after) ==
    IF err = Nil THEN Nil ELSE <<before \o arg \o after>> \o err

\* Faulty variant of Address: the port is left out.
AddressWithoutPort(h, p) == h

\* fmt.Sprintf("%s:%d", host, port)
Address(h, p) == h \o ":" \o ToString(p)

PrivateKeyPath == "~/.ssh/id_rsa"

\* ------------------------------------------------------------ pure helpers
\* ssh.ParsePrivateKey(buffer)
ParsePrivateKey(file) ==
    CASE file = "plain" -> [ok |-> TRUE, err |-> Nil]
      [] file = "encrypted" ->
            [ok |-> FALSE, err |-> <<"ssh: this private key is passphrase protected">>]
      [] OTHER -> [ok |-> FALSE, err |-> ParseErr]

\* ssh.ParsePrivateKeyWithPassphrase(buffer, bytePassword)
ParsePrivateKeyWithPassphrase(file, passphrase) ==
    IF file = "encrypted" /\ passphrase = KeyPassphrase
    THEN [ok |-> TRUE, err |-> Nil]
    ELSE [ok |-> FALSE, err |-> PassphraseErr]

\* keys, _ := sshAgent.List()
List(agent) == IF agent.status = "up" THEN agent.keys ELSE << >>

\* authkey.Marshal() of the key parsed from the .pub line
Marshal(pub) == pub.blob

\* Faulty variant of MatchesAny: only the first identity is compared.
MatchesFirstOnly(keys, parsedkey) == Len(keys) > 0 /\ keys[1] = parsedkey

\* Faulty variant of MatchesAny: any loaded identity counts as a match.
MatchesWhenAnyLoaded(keys, parsedkey) == Len(keys) > 0

\* for _, key := range keys { if bytes.Equal(key.Blob, parsedkey) ... }
MatchesAny(keys, parsedkey) == \E i \in 1..Len(keys) : keys[i] = parsedkey

\* The value returned by callback(operator)
CallbackReturn(cb) == IF cb = "err" THEN CallbackErr ELSE Nil

\* The value returned by operator.Close()
CloseReturn(c) == IF c = "err" THEN CloseErr ELSE Nil

\* Faulty variant of AfterDeferred: an error of the deferred call replaces
\* the result.
AfterDeferredOverriding(result, deferredResult) ==
    IF deferredResult # Nil THEN deferredResult ELSE result

\* Faulty variant of AfterDeferred: an error of the deferred call is returned
\* when the function itself was returning nil.
AfterDeferredFillingNil(result, deferredResult) ==
    IF result = Nil THEN deferredResult ELSE result

\* `defer f()` discards what f returns: the function's result stays as the
\* return statement set it.
AfterDeferred(result, deferredResult) == result

Frame(fn) == [fn |-> fn, defers |-> << >>]

Push(stk, call) ==
    [stk EXCEPT ![Len(stk)].defers = Append(@, call)]

Top == stack[Len(stack)]

Count(ev) == Cardinality({i \in 1..Len(log) : log[i] = ev})

Index(ev) == IF Count(ev) = 0 THEN 0 ELSE CHOOSE i \in 1..Len(log) : log[i] = ev

\* -------------------------------------------------------------------- Init
Init ==
    /\ env \in Envs
    /\ pc = "idle"
    /\ entry = "none"
    /\ host = ""
    /\ port = 0
    /\ method = "none"
    /\ sshAgent = "unset"
    /\ closeAgent = "unset"
    /\ conn = "none"
    /\ agentSock = "none"
    /\ stack = << >>
    /\ ret = Nil
    /\ panicking = FALSE
    /\ log = << >>


\* ----------------------------------------------------------- ExecuteLocal
\* func ExecuteLocal(callback): entered.
ExecuteLocal ==
    /\ pc = "idle"
    /\ entry' = "ExecuteLocal"
    /\ stack' = <<Frame("ExecuteLocal")>>
    /\ pc' = "L31"
    /\ UNCHANGED <<env, host, port, method, sshAgent, closeAgent, conn,
                   agentSock, ret, panicking, log>>

\* Faulty variant of CallbackLocal: the callback's error is dropped.
CallbackLocalDroppingError ==
    /\ pc = "L31"
    /\ log' = Append(log, "callback")
    /\ ret' = Nil
    /\ panicking' = (env.cb = "panic")
    /\ pc' = "return"
    /\ UNCHANGED <<env, entry, host, port, method, sshAgent, closeAgent, conn,
                   agentSock, stack>>

\* return callback(NewLocalOperator())
CallbackLocal ==
    /\ pc = "L31"
    /\ log' = Append(log, "callback")
    /\ ret' = CallbackReturn(env.cb)
    /\ panicking' = (env.cb = "panic")
    /\ pc' = "return"
    /\ UNCHANGED <<env, entry, host, port, method, sshAgent, closeAgent, conn,
                   agentSock, stack>>

\* ---------------------------------------------- ExecuteRemoteWithPassword
\* return executeRemote(host, port, user, ssh.Password(password), callback)
ExecuteRemoteWithPassword(h, p) ==
    /\ pc = "idle"
    /\ entry' = "ExecuteRemoteWithPassword"
    /\ host' = h
    /\ port' = p
    /\ method' = "password"
    /\ stack' = <<Frame("ExecuteRemoteWithPassword"), Frame("executeRemote")>>
    /\ pc' = "L143"
    /\ UNCHANGED <<env, sshAgent, closeAgent, conn, agentSock, ret, panicking, log>>

\* -------------------------------------------- ExecuteRemoteWithPrivateKey
ExecuteRemoteWithPrivateKey(h, p) ==
    /\ pc = "idle"
    /\ entry' = "ExecuteRemoteWithPrivateKey"
    /\ host' = h
    /\ port' = p
    /\ stack' = <<Frame("ExecuteRemoteWithPrivateKey")>>
    /\ pc' = "L39"
    /\ UNCHANGED <<env, method, sshAgent, closeAgent, conn, agentSock, ret,
                   panicking, log>>

\* buffer, err := ioutil.ReadFile(expandPath(privateKey)); if err != nil return
ReadKeyFile ==
    /\ pc = "L39"
    /\ log' = Append(log, "ReadFile:key")
    /\ IF env.keyFile = "missing"
       THEN /\ ret' = Wrapf(FileErr, "unable to parse private key: ", PrivateKeyPath, "")
            /\ pc' = "return"
       ELSE /\ ret' = ret
            /\ pc' = "L45"
    /\ UNCHANGED <<env, entry, host, port, method, sshAgent, closeAgent, conn,
                   agentSock, stack, panicking>>

\* Faulty variant of AfterParse: the agent is probed for usable keys too.
AfterParseAlwaysProbing(parsed) ==
    IF parsed.ok \/ parsed.err = <<"ssh: this private key is passphrase protected">>
    THEN "L52"
    ELSE "return"

\* Faulty variant of AfterParse: every parse error is taken for a missing
\* passphrase.
AfterParseRecoveringAnyError(parsed) == IF parsed.ok THEN "L70" ELSE "L52"

\* Where line 45-50 and 69-71 send control after ssh.ParsePrivateKey:
\* "L70" key usable, "L52" passphrase protected, "return" any other error.
AfterParse(parsed) ==
    IF parsed.ok THEN "L70"
    ELSE IF parsed.err # <<"ssh: this private key is passphrase protected">>
         THEN "return"
         ELSE "L52"

\* key, err := ssh.ParsePrivateKey(buffer) and the branch on err
ParseKey ==
    /\ pc = "L45"
    /\ log' = Append(log, "ParsePrivateKey")
    /\ LET parsed == ParsePrivateKey(env.keyFile)
           next == AfterParse(parsed)
       IN /\ pc' = next
          /\ ret' = IF next = "return"
                    THEN Wrapf(parsed.err, "unable to parse private key: ",
                               PrivateKeyPath, "")
                    ELSE ret
    /\ UNCHANGED <<env, entry, host, port, method, sshAgent, closeAgent, conn,
                   agentSock, stack, panicking>>

\* } else { method = ssh.PublicKeys(key) }
UsePlainKey ==
    /\ pc = "L70"
    /\ method' = "publickey"
    /\ pc' = "L73"
    /\ UNCHANGED <<env, entry, host, port, sshAgent, closeAgent, conn, agentSock,
                   stack, ret, panicking, log>>

\* ------------------------------------------------ privateKeyUsingSSHAgent
\* sshAgent, closeAgent := privateKeyUsingSSHAgent(privateKey + ".pub"): call
CallProbe ==
    /\ pc = "L52"
    /\ stack' = Append(stack, Frame("privateKeyUsingSSHAgent"))
    /\ pc' = "L106"
    /\ UNCHANGED <<env, entry, host, port, method, sshAgent, closeAgent, conn,
                   agentSock, ret, panicking, log>>

\* The probe returns (m, c) to line 52 of the caller.
ProbeReturns(m, c) ==
    /\ sshAgent' = m
    /\ closeAgent' = c
    /\ stack' = SubSeq(stack, 1, Len(stack) - 1)
    /\ pc' = "L53"

\* Faulty variant of ProbeDial: an unreachable agent ends the call with an
\* error, as on the agent-delegated path.
ProbeDialFatal ==
    /\ pc = "L106"
    /\ log' = Append(log, "Dial:agent")
    /\ IF env.agent.status # "down"
       THEN /\ agentSock' = "open"
            /\ pc' = "L109"
            /\ UNCHANGED <<stack, ret>>
       ELSE /\ agentSock' = agentSock
            /\ ret' = Wrapf(SockErr, "unable to reach SSH Agent", "", "")
            /\ stack' = SubSeq(stack, 1, Len(stack) - 1)
            /\ pc' = "return"
    /\ UNCHANGED <<env, entry, host, port, method, sshAgent, closeAgent, conn,
                   panicking>>

\* if sshAgentConn, err := net.Dial("unix", os.Getenv("SSH_AUTH_SOCK")); err == nil
\* otherwise line 131: return nil, func() error { return nil }
ProbeDial ==
    /\ pc = "L106"
    /\ log' = Append(log, "Dial:agent")
    /\ IF env.agent.status # "down"
       THEN /\ agentSock' = "open"
            /\ pc' = "L109"
            /\ UNCHANGED <<sshAgent, closeAgent, stack>>
       ELSE /\ agentSock' = agentSock
            /\ ProbeReturns("nil", "noop")
    /\ UNCHANGED <<env, entry, host, port, method, conn, ret, panicking>>

\* keys, _ := sshAgent.List(); if len(keys) == 0 { return nil, sshAgentConn.Close }
ProbeList ==
    /\ pc = "L109"
    /\ log' = Append(log, "List")
    /\ IF Len(List(env.agent)) = 0
       THEN ProbeReturns("nil", "sshAgentConn.Close")
       ELSE /\ pc' = "L114"
            /\ UNCHANGED <<sshAgent, closeAgent, stack>>
    /\ UNCHANGED <<env, entry, host, port, method, conn, agentSock, ret, panicking>>

\* Faulty variant of ProbeReadPub: an unreadable .pub file is reported as an
\* error of the entry point.
ProbeReadPubReportingError ==
    /\ pc = "L114"
    /\ log' = Append(log, "ReadFile:pub")
    /\ IF env.pubFile.status = "missing"
       THEN /\ ret' = Wrapf(FileErr, "unable to read public key: ", PrivateKeyPath, ".pub")
            /\ stack' = Push(SubSeq(stack, 1, Len(stack) - 1), "sshAgentConn.Close")
            /\ pc' = "return"
            /\ UNCHANGED <<sshAgent, closeAgent>>
       ELSE /\ pc' = "L119"
            /\ UNCHANGED <<sshAgent, closeAgent, stack, ret>>
    /\ UNCHANGED <<env, entry, host, port, method, conn, agentSock, panicking>>

\* pubkey, err := ioutil.ReadFile(expandPath(publicKeyPath)); if err != nil ...
ProbeReadPub ==
    /\ pc = "L114"
    /\ log' = Append(log, "ReadFile:pub")
    /\ IF env.pubFile.status = "missing"
       THEN ProbeReturns("nil", "sshAgentConn.Close")
       ELSE /\ pc' = "L119"
            /\ UNCHANGED <<sshAgent, closeAgent, stack>>
    /\ UNCHANGED <<env, entry, host, port, method, conn, agentSock, ret, panicking>>

\* authkey, _, _, _, err := ssh.ParseAuthorizedKey(pubkey); if err != nil ...
ProbeParsePub ==
    /\ pc = "L119"
    /\ log' = Append(log, "ParseAuthorizedKey")
    /\ IF env.pubFile.status # "ok"
       THEN ProbeReturns("nil", "sshAgentConn.Close")
       ELSE /\ pc' = "L125"
            /\ UNCHANGED <<sshAgent, closeAgent, stack>>
    /\ UNCHANGED <<env, entry, host, port, method, conn, agentSock, ret, panicking>>

\* The closer returned with nil when the loop of lines 125-129 ends without
\* a match: control leaves the if-block and reaches line 131.
NoMatchCloser == "noop"

\* parsedkey := authkey.Marshal(); the loop over keys; line 131 when none matches
ProbeMatch ==
    /\ pc = "L125"
    /\ IF MatchesAny(List(env.agent), Marshal(env.pubFile))
       THEN ProbeReturns("agent", "sshAgentConn.Close")
       ELSE ProbeReturns("nil", NoMatchCloser)
    /\ UNCHANGED <<env, entry, host, port, method, conn, agentSock, ret,
                   panicking, log>>

\* Faulty variant of DeferCloseAgent: closeAgent is called as soon as the
\* probe has returned instead of being deferred.
CloseAgentWithoutDefer ==
    /\ pc = "L53"
    /\ IF closeAgent = "sshAgentConn.Close"
       THEN /\ agentSock' = "closed"
            /\ log' = Append(log, "Close:agent")
       ELSE UNCHANGED <<agentSock, log>>
    /\ pc' = "L55"
    /\ UNCHANGED <<env, entry, host, port, method, sshAgent, closeAgent, conn,
                   stack, ret, panicking>>

\* defer closeAgent()
DeferCloseAgent ==
    /\ pc = "L53"
    /\ stack' = Push(stack, closeAgent)
    /\ pc' = "L55"
    /\ UNCHANGED <<env, entry, host, port, method, sshAgent, closeAgent, conn,
                   agentSock, ret, panicking, log>>

\* if sshAgent != nil { method = sshAgent }
UseAgent ==
    /\ pc = "L55"
    /\ sshAgent # "nil"
    /\ method' = "agent"
    /\ pc' = "L73"
    /\ UNCHANGED <<env, entry, host, port, sshAgent, closeAgent, conn, agentSock,
                   stack, ret, panicking, log>>

\* } else { fmt.Printf("Enter passphrase for '%s': ", privateKey);
\*          bytePassword, _ := terminal.ReadPassword(STDIN); fmt.Println()
Prompt ==
    /\ pc = "L55"
    /\ sshAgent = "nil"
    /\ log' = Append(log, "Prompt")
    /\ pc' = "L63"
    /\ UNCHANGED <<env, entry, host, port, method, sshAgent, closeAgent, conn,
                   agentSock, stack, ret, panicking>>

\* Faulty variant of AfterPassphrase: a wrong passphrase is asked for again.
AfterPassphraseRetrying(parsed) == IF parsed.ok THEN "L73" ELSE "L55"

\* Where lines 63-67 send control after ParsePrivateKeyWithPassphrase.
AfterPassphrase(parsed) == IF parsed.ok THEN "L73" ELSE "return"

\* key, err = ssh.ParsePrivateKeyWithPassphrase(buffer, bytePassword) ...
ParseWithPassphrase ==
    /\ pc = "L63"
    /\ log' = Append(log, "ParsePrivateKeyWithPassphrase")
    /\ LET parsed == ParsePrivateKeyWithPassphrase(env.keyFile, env.typed)
           next == AfterPassphrase(parsed)
       IN /\ pc' = next
          /\ method' = IF parsed.ok THEN "publickey" ELSE method
          /\ ret' = IF parsed.ok THEN ret
                    ELSE Wrapf(parsed.err, "parse private key with passphrase failed: ",
                               PrivateKeyPath, "")
    /\ UNCHANGED <<env, entry, host, port, sshAgent, closeAgent, conn, agentSock,
                   stack, panicking>>

\* return executeRemote(host, port, user, method, callback)
CallExecuteRemote ==
    /\ pc = "L73"
    /\ stack' = Append(stack, Frame("executeRemote"))
    /\ pc' = "L143"
    /\ UNCHANGED <<env, entry, host, port, method, sshAgent, closeAgent, conn,
                   agentSock, ret, panicking, log>>

\* ---------------------------------------- connection step (both variants)
\* Faulty variant of NewSSHOperatorAt: a failed connection is tried again.
NewSSHOperatorRetryingAt(here, next) ==
    /\ pc = here
    /\ log' = Append(log, "Dial:target")
    /\ IF env.targetUp
       THEN /\ conn' = "open"
            /\ pc' = next
       ELSE /\ conn' = conn
            /\ pc' = IF Count("Dial:target") = 0 THEN here ELSE "return"
    /\ ret' = IF pc' = "return"
              THEN Wrapf(DialErr, "unable to connect to ", Address(host, port),
                         " over ssh")
              ELSE ret
    /\ UNCHANGED <<env, entry, host, port, method, sshAgent, closeAgent, agentSock,
                   stack, panicking>>

\* address := fmt.Sprintf("%s:%d", host, port)
\* operator, err := NewSSHOperator(address, config)
\* if err != nil { return errors.Wrapf(err, "unable to connect to %s over ssh", address) }
NewSSHOperatorAt(here, next) ==
    /\ pc = here
    /\ log' = Append(log, "Dial:target")
    /\ IF env.targetUp
       THEN /\ conn' = "open"
            /\ ret' = ret
            /\ pc' = next
       ELSE /\ conn' = conn
            /\ ret' = Wrapf(DialErr, "unable to connect to ", Address(host, port),
                            " over ssh")
            /\ pc' = "return"
    /\ UNCHANGED <<env, entry, host, port, method, sshAgent, closeAgent, agentSock,
                   stack, panicking>>

\* Faulty variant of DeferOperatorCloseAt: Close is called at once instead
\* of being deferred.
OperatorCloseWithoutDeferAt(here, next) ==
    /\ pc = here
    /\ conn' = "closed"
    /\ log' = Append(log, "Close:conn")
    /\ pc' = next
    /\ UNCHANGED <<env, entry, host, port, method, sshAgent, closeAgent,
                   agentSock, stack, ret, panicking>>

\* Faulty variant of DeferOperatorCloseAt: the defer statement is missing.
NoDeferOperatorCloseAt(here, next) ==
    /\ pc = here
    /\ pc' = next
    /\ UNCHANGED <<env, entry, host, port, method, sshAgent, closeAgent, conn,
                   agentSock, stack, ret, panicking, log>>

\* defer operator.Close()
DeferOperatorCloseAt(here, next) ==
    /\ pc = here
    /\ stack' = Push(stack, "operator.Close")
    /\ pc' = next
    /\ UNCHANGED <<env, entry, host, port, method, sshAgent, closeAgent, conn,
                   agentSock, ret, panicking, log>>

\* return callback(operator)
CallbackAt(here) ==
    /\ pc = here
    /\ log' = Append(log, IF conn = "open" THEN "callback" ELSE "callback:stale")
    /\ ret' = CallbackReturn(env.cb)
    /\ panicking' = (env.cb = "panic")
    /\ pc' = "return"
    /\ UNCHANGED <<env, entry, host, port, method, sshAgent, closeAgent, conn,
                   agentSock, stack>>

\* ----------------------------------------------------------- executeRemote
Connect == NewSSHOperatorAt("L143", "L149")

DeferOperatorClose == DeferOperatorCloseAt("L149", "L151")

Callback == CallbackAt("L151")

\* ----------------------------------------------------------- ExecuteRemote
ExecuteRemote(h, p) ==
    /\ pc = "idle"
    /\ entry' = "ExecuteRemote"
    /\ host' = h
    /\ port' = p
    /\ stack' = <<Frame("ExecuteRemote")>>
    /\ pc' = "L77"
    /\ UNCHANGED <<env, method, sshAgent, closeAgent, conn, agentSock, ret,
                   panicking, log>>

\* Faulty variant of AfterAgentDial: the dial error is ignored.
AfterAgentDialIgnoringError(reached) == "L83"

\* Where lines 77-81 send control after net.Dial to the agent socket.
AfterAgentDial(reached) == IF reached THEN "L83" ELSE "return"

\* sshAgent, err := net.Dial("unix", os.Getenv("SSH_AUTH_SOCK"))
\* if err != nil { return errors.Wrapf(err, "unable to reach SSH Agent") }
DialAgent ==
    /\ pc = "L77"
    /\ log' = Append(log, "Dial:agent")
    /\ LET reached == env.agent.status # "down"
       IN /\ agentSock' = IF reached THEN "open" ELSE agentSock
          /\ pc' = AfterAgentDial(reached)
          /\ ret' = IF reached THEN ret
                    ELSE Wrapf(SockErr, "unable to reach SSH Agent", "", "")
    /\ UNCHANGED <<env, entry, host, port, method, sshAgent, closeAgent, conn,
                   stack, panicking>>

\* Faulty variant of DeferAgentClose: the defer statement is missing.
NoDeferAgentClose ==
    /\ pc = "L83"
    /\ method' = "agent"
    /\ pc' = "L94"
    /\ UNCHANGED <<env, entry, host, port, sshAgent, closeAgent, conn, agentSock,
                   stack, ret, panicking, log>>

\* defer sshAgent.Close(); config with ssh.PublicKeysCallback(agent.NewClient(sshAgent).Signers)
DeferAgentClose ==
    /\ pc = "L83"
    /\ stack' = Push(stack, "sshAgent.Close")
    /\ method' = "agent"
    /\ pc' = "L94"
    /\ UNCHANGED <<env, entry, host, port, sshAgent, closeAgent, conn, agentSock,
                   ret, panicking, log>>

ConnectWithAgent == NewSSHOperatorAt("L94", "L100")

DeferOperatorCloseWithAgent == DeferOperatorCloseAt("L100", "L102")

CallbackWithAgent == CallbackAt("L102")

\* ------------------------------------------------- returning and deferred
\* The deferred calls of the returning (or panicking) frame run last in,
\* first out; what they return is discarded.
RunDeferred ==
    /\ pc = "return"
    /\ Len(stack) > 0
    /\ Len(Top.defers) > 0
    /\ LET n == Len(Top.defers)
           call == Top.defers[n]
       IN /\ stack' = [stack EXCEPT ![Len(stack)].defers = SubSeq(@, 1, n - 1)]
          /\ CASE call = "operator.Close" ->
                    /\ conn' = "closed"
                    /\ agentSock' = agentSock
                    /\ log' = Append(log, "Close:conn")
                    /\ ret' = AfterDeferred(ret, CloseReturn(env.close))
               [] call \in {"sshAgent.Close", "sshAgentConn.Close"} ->
                    /\ agentSock' = "closed"
                    /\ conn' = conn
                    /\ log' = Append(log, "Close:agent")
                    /\ ret' = AfterDeferred(ret, CloseReturn(env.close))
               [] OTHER ->
                    /\ UNCHANGED <<conn, agentSock, log>>
                    /\ ret' = AfterDeferred(ret, Nil)
    /\ UNCHANGED <<env, pc, entry, host, port, method, sshAgent, closeAgent,
                   panicking>>

\* The frame has no deferred call left: it returns to its caller, which in
\* every such place of the code returns the same value itself.
ReturnFrame ==
    /\ pc = "return"
    /\ Len(stack) > 0
    /\ Len(Top.defers) = 0
    /\ stack' = SubSeq(stack, 1, Len(stack) - 1)
    /\ pc' = IF Len(stack) > 1 THEN "return"
             ELSE IF panicking THEN "crashed" ELSE "done"
    /\ UNCHANGED <<env, entry, host, port, method, sshAgent, closeAgent, conn,
                   agentSock, ret, panicking, log>>

\* -------------------------------------------------------------------- Next
Next ==
    \/ ExecuteLocal
    \/ CallbackLocal
    \/ \E h \in Hosts, p \in Ports : ExecuteRemoteWithPassword(h, p)
    \/ \E h \in Hosts, p \in Ports : ExecuteRemoteWithPrivateKey(h, p)
    \/ ReadKeyFile
    \/ ParseKey
    \/ UsePlainKey
    \/ CallProbe
    \/ ProbeDial
    \/ ProbeList
    \/ ProbeReadPub
    \/ ProbeParsePub
    \/ ProbeMatch
    \/ DeferCloseAgent
    \/ UseAgent
    \/ Prompt
    \/ ParseWithPassphrase
    \/ CallExecuteRemote
    \/ Connect
    \/ DeferOperatorClose
    \/ Callback
    \/ \E h \in Hosts, p \in Ports : ExecuteRemote(h, p)
    \/ DialAgent
    \/ DeferAgentClose
    \/ ConnectWithAgent
    \/ DeferOperatorCloseWithAgent
    \/ CallbackWithAgent
    \/ RunDeferred
    \/ ReturnFrame

Spec == Init /\ [][Next]_vars

Returned == pc = "done"

Finished == pc \in {"done", "crashed"}

TypeOK ==
    /\ env \in Envs
    /\ conn \in {"none", "open", "closed"}
    /\ agentSock \in {"none", "open", "closed"}
    /\ method \in {"none", "password", "publickey", "agent"}
    /\ panicking \in BOOLEAN

\* ------------------------------------------------------- observations used
RemoteEntries ==
    {"ExecuteRemoteWithPassword", "ExecuteRemoteWithPrivateKey", "ExecuteRemote"}

Callbacks == Count("callback") + Count("callback:stale")

ConnectionOpened == conn # "none"

\* The agent lists an identity equal to the key of the .pub file.
AgentHoldsKey ==
    /\ env.agent.status = "up"
    /\ env.pubFile.status = "ok"
    /\ \E i \in DOMAIN env.agent.keys : env.agent.keys[i] = env.pubFile.blob

ProbeEvents == {"Dial:agent", "List", "ReadFile:pub", "ParseAuthorizedKey"}

\* ---------------------------------------------------------------------- C1
\* C1: in every call of a remote entry point that opened the connection to
\* host:port, Close of that connection is invoked exactly once before the
\* entry point returns (or its panic leaves it), whatever the callback did:
\* never twice at any moment, never zero times at the end, and never when no
\* connection was opened.
C1_ConnectionClosedExactlyOnce ==
    /\ Count("Close:conn") <= 1
    /\ (~ConnectionOpened) => Count("Close:conn") = 0
    /\ (Finished /\ ConnectionOpened) =>
           /\ entry \in RemoteEntries
           /\ Count("Close:conn") = 1
           /\ conn = "closed"

C1_Witness ==
    /\ Returned
    /\ entry = "ExecuteRemoteWithPrivateKey"
    /\ env.cb = "err"
    /\ Count("callback") = 1
    /\ Count("Close:conn") = 1

\* ---------------------------------------------------------------------- C2
\* C2: once a connection was established, a remote entry point returns
\* exactly what the callback returned: the callback's error also when Close
\* fails afterwards, and nil when the callback returned nil.
C2_ReturnsCallbackResult ==
    (Returned /\ ConnectionOpened) =>
        /\ Callbacks = 1
        /\ env.cb = "err" => ret = CallbackErr
        /\ env.cb = "ok" => ret = Nil

C2_Witness ==
    /\ Returned
    /\ entry = "ExecuteRemoteWithPassword"
    /\ env.cb = "err"
    /\ env.close = "err"
    /\ Count("Close:conn") = 1
    /\ ret = CallbackErr

\* ---------------------------------------------------------------------- C3
\* C3 as stated: when the callback returns success and Close of the
\* connection then fails, the remote entry point returns the close error.
C3_CloseErrorPropagates ==
    (Returned /\ ConnectionOpened /\ env.cb = "ok" /\ env.close = "err") =>
        ret = CloseErr

\* C3 as the code has it: when the callback returns success and Close of the
\* connection then fails, the close error is discarded and the remote entry
\* point returns nil, the callback's result.
C3_CloseErrorDiscarded ==
    (Returned /\ ConnectionOpened /\ env.cb = "ok" /\ env.close = "err") =>
        /\ Count("Close:conn") = 1
        /\ ret = Nil

C3_Witness ==
    /\ Returned
    /\ entry = "ExecuteRemote"
    /\ env.cb = "ok"
    /\ env.close = "err"
    /\ Count("callback") = 1
    /\ Count("Close:conn") = 1

\* ---------------------------------------------------------------------- C4
\* C4: when opening the connection to host:port fails, the remote entry
\* point returns the dial error wrapped in "unable to connect to host:port
\* over ssh", the callback is never invoked and Close of a connection is
\* never attempted.
C4_DialFailure ==
    (Count("Dial:target") > 0 /\ ~env.targetUp) =>
        /\ entry \in RemoteEntries
        /\ Count("Dial:target") = 1
        /\ Callbacks = 0
        /\ Count("Close:conn") = 0
        /\ conn = "none"
        /\ pc # "crashed"
        /\ pc \in {"return", "done"}
        /\ host = "alpha" =>
               ret = <<"unable to connect to alpha:22 over ssh", "dial failed">>
        /\ host = "beta" =>
               ret = <<"unable to connect to beta:22 over ssh", "dial failed">>

C4_Witness ==
    /\ Returned
    /\ entry = "ExecuteRemoteWithPassword"
    /\ host = "beta"
    /\ Count("Dial:target") = 1
    /\ ~env.targetUp

\* ---------------------------------------------------------------------- C5
\* C5: in ExecuteRemote, when the agent socket cannot be reached, the dial
\* to the agent is the only thing that happens: the call returns "unable to
\* reach SSH Agent" wrapping the dial error, the target host is never
\* dialled, the callback never runs, and neither the key file nor the
\* passphrase prompt is tried instead.
C5_AgentUnreachableIsImmediate ==
    (entry = "ExecuteRemote" /\ env.agent.status = "down") =>
        /\ Count("Dial:target") = 0
        /\ Callbacks = 0
        /\ Count("Prompt") = 0
        /\ Count("ReadFile:key") = 0
        /\ method = "none"
        /\ conn = "none"
        /\ agentSock = "none"
        /\ pc \in {"L77", "return", "done"}
        /\ pc # "L77" =>
               /\ log = <<"Dial:agent">>
               /\ ret = <<"unable to reach SSH Agent", "dial unix: no such file">>

C5_Witness ==
    /\ Returned
    /\ entry = "ExecuteRemote"
    /\ env.agent.status = "down"
    /\ log = <<"Dial:agent">>

\* ---------------------------------------------------------------------- C6
\* C6: on every exit path of ExecuteRemoteWithPrivateKey on which the
\* probe's dial to the agent succeeded, the agent socket has been closed by
\* the time the entry point returns.
C6_ProbeSocketClosed ==
    (Returned /\ entry = "ExecuteRemoteWithPrivateKey" /\ agentSock # "none") =>
        agentSock = "closed"

\* ---------------------------------------------------------------------- C7
\* C7: in ExecuteRemoteWithPrivateKey, when the key file parses without a
\* passphrase, the agent socket is never dialled and the passphrase prompt
\* never shown; the parse is followed directly by the dial to the target
\* host, with the parsed key as the auth method.
C7_PlainKeySkipsAgentAndPrompt ==
    (entry = "ExecuteRemoteWithPrivateKey" /\ env.keyFile = "plain") =>
        /\ Count("Dial:agent") = 0
        /\ Count("Prompt") = 0
        /\ agentSock = "none"
        /\ Count("Dial:target") > 0 =>
               /\ method = "publickey"
               /\ SubSeq(log, 1, 3) = <<"ReadFile:key", "ParsePrivateKey", "Dial:target">>
        /\ Finished => Count("Dial:target") = 1

C7_Witness ==
    /\ entry = "ExecuteRemoteWithPrivateKey"
    /\ env.keyFile = "plain"
    /\ env.agent.status = "up"
    /\ Count("Dial:target") = 1
    /\ Returned

\* ---------------------------------------------------------------------- C8
\* C8: in ExecuteRemoteWithPrivateKey, when the key is passphrase protected
\* and the agent lists an identity whose blob equals the marshalled key of
\* <path>.pub, the passphrase prompt is never shown and the connection is
\* made with agent-delegated signing as its auth method.
C8_AgentMatchSkipsPrompt ==
    (entry = "ExecuteRemoteWithPrivateKey" /\ env.keyFile = "encrypted"
        /\ AgentHoldsKey) =>
        /\ Count("Prompt") = 0
        /\ Count("ParsePrivateKeyWithPassphrase") = 0
        /\ Count("Dial:target") > 0 => method = "agent"
        /\ Finished => Count("Dial:target") = 1

C8_Witness ==
    /\ entry = "ExecuteRemoteWithPrivateKey"
    /\ env.keyFile = "encrypted"
    /\ AgentHoldsKey
    /\ Len(env.agent.keys) = 2
    /\ env.agent.keys[1] # env.pubFile.blob
    /\ method = "agent"
    /\ Count("Dial:target") = 1
    /\ Returned

\* ---------------------------------------------------------------------- C9
\* C9: in ExecuteRemoteWithPrivateKey, when the key is passphrase protected
\* and the probe yields no match (agent unreachable, or no identity equal
\* to the .pub key), the passphrase prompt is shown exactly once in the
\* call, after every step of the probe and before any dial to the target.
C9_PromptExactlyOnce ==
    (entry = "ExecuteRemoteWithPrivateKey" /\ env.keyFile = "encrypted"
        /\ ~AgentHoldsKey) =>
        /\ Count("Prompt") <= 1
        /\ Finished => Count("Prompt") = 1
        /\ Count("Dial:target") > 0 =>
               /\ Count("Prompt") = 1
               /\ Index("Prompt") < Index("Dial:target")
        /\ Count("Prompt") = 1 =>
               /\ Count("Dial:agent") = 1
               /\ sshAgent = "nil"
               /\ \A i \in 1..Len(log) :
                      log[i] \in ProbeEvents => i < Index("Prompt")

C9_Witness ==
    /\ entry = "ExecuteRemoteWithPrivateKey"
    /\ env.keyFile = "encrypted"
    /\ env.agent.status = "up"
    /\ env.agent.keys # << >>
    /\ env.pubFile.status = "ok"
    /\ ~AgentHoldsKey
    /\ Count("Prompt") = 1
    /\ Count("Dial:target") = 1
    /\ Returned

\* --------------------------------------------------------------------- C10
\* C10: in ExecuteRemoteWithPrivateKey, when parsing the key with the
\* passphrase read at the prompt fails, the call returns "parse private key
\* with passphrase failed: <path>" wrapping the parse error: there is no
\* second prompt, no dial to the target host and no callback.
C10_WrongPassphraseIsFatal ==
    (entry = "ExecuteRemoteWithPrivateKey"
        /\ Count("ParsePrivateKeyWithPassphrase") > 0
        /\ env.typed # KeyPassphrase) =>
        /\ Count("Prompt") = 1
        /\ Count("ParsePrivateKeyWithPassphrase") = 1
        /\ Count("Dial:target") = 0
        /\ Callbacks = 0
        /\ conn = "none"
        /\ pc \in {"return", "done"}
        /\ ret = <<"parse private key with passphrase failed: ~/.ssh/id_rsa",
                   "x509: decryption password incorrect">>

C10_Witness ==
    /\ entry = "ExecuteRemoteWithPrivateKey"
    /\ env.typed = "wrong"
    /\ Count("Prompt") = 1
    /\ Count("ParsePrivateKeyWithPassphrase") = 1
    /\ Returned

\* --------------------------------------------------------------------- C11
\* C11: in ExecuteRemoteWithPrivateKey, when the parse without a passphrase
\* fails for a reason other than "passphrase protected", the call returns
\* "unable to parse private key: <path>" wrapping that parse error and
\* attempts no recovery: no agent probe, no prompt, no dial to the target,
\* no callback.
C11_OtherParseErrorIsFatal ==
    (entry = "ExecuteRemoteWithPrivateKey" /\ env.keyFile = "corrupt") =>
        /\ Count("Dial:agent") = 0
        /\ Count("Prompt") = 0
        /\ Count("ParsePrivateKeyWithPassphrase") = 0
        /\ Count("Dial:target") = 0
        /\ Callbacks = 0
        /\ agentSock = "none"
        /\ conn = "none"
        /\ pc \in {"L39", "L45", "return", "done"}
        /\ pc \in {"return", "done"} =>
               /\ log = <<"ReadFile:key", "ParsePrivateKey">>
               /\ ret = <<"unable to parse private key: ~/.ssh/id_rsa",
                          "ssh: no key found">>

C11_Witness ==
    /\ entry = "ExecuteRemoteWithPrivateKey"
    /\ env.keyFile = "corrupt"
    /\ env.agent.status = "up"
    /\ Count("ParsePrivateKey") = 1
    /\ Returned

\* --------------------------------------------------------------------- C12
\* C12: during the agent probe of ExecuteRemoteWithPrivateKey, every probe
\* failure (agent socket unavailable, listing failing or empty, .pub file
\* unreadable, .pub file not parsable) counts as "no agent match": no error
\* is set by the probe, and control always goes on to the passphrase prompt.
ProbeFails ==
    \/ env.agent.status \in {"down", "listfail"}
    \/ env.agent.keys = << >>
    \/ env.pubFile.status \in {"missing", "garbage"}

C12_ProbeFailuresFallThrough ==
    (entry = "ExecuteRemoteWithPrivateKey" /\ env.keyFile = "encrypted"
        /\ ProbeFails) =>
        /\ Count("Prompt") = 0 =>
               /\ ret = Nil
               /\ pc \in {"L39", "L45", "L52", "L106", "L109", "L114", "L119",
                          "L53", "L55"}
        /\ pc \in {"L53", "L55"} => sshAgent = "nil"
        /\ method # "agent"
        /\ Finished => Count("Prompt") = 1

C12_Witness ==
    /\ entry = "ExecuteRemoteWithPrivateKey"
    /\ env.keyFile = "encrypted"
    /\ env.agent.status = "up"
    /\ env.agent.keys # << >>
    /\ env.pubFile.status = "missing"
    /\ Count("ReadFile:pub") = 1
    /\ Count("Prompt") = 1
    /\ ret = Nil
    /\ Returned

\* --------------------------------------------------------------------- C13
AgentPathTaken ==
    \/ entry = "ExecuteRemote"
    \/ entry = "ExecuteRemoteWithPrivateKey" /\ env.keyFile = "encrypted"

\* C13 as stated: an absent or unreachable agent socket is a hard failure
\* (the entry point returns an error) on the agent-delegated path
\* (ExecuteRemote) and on the agent-fallback path
\* (ExecuteRemoteWithPrivateKey with a passphrase-protected key) alike.
C13_AgentAbsenceAlwaysFatal ==
    (Returned /\ AgentPathTaken /\ env.agent.status = "down") => ret # Nil

\* C13 as the code has it: an absent or unreachable agent socket is a hard
\* failure only on the agent-delegated path, where ExecuteRemote returns
\* "unable to reach SSH Agent"; on the agent-fallback path it is tolerated:
\* the call goes on to the passphrase prompt, never returns an error about
\* the agent, and returns nil when passphrase, connection and callback
\* succeed.
C13_AgentAbsenceFatalOnlyWhenDelegated ==
    (AgentPathTaken /\ env.agent.status = "down") =>
        /\ (Returned /\ entry = "ExecuteRemote") =>
               ret = <<"unable to reach SSH Agent", "dial unix: no such file">>
        /\ (Finished /\ entry = "ExecuteRemoteWithPrivateKey") =>
               /\ Count("Dial:agent") = 1
               /\ Count("Prompt") = 1
               /\ Index("Dial:agent") < Index("Prompt")
        /\ (Returned /\ entry = "ExecuteRemoteWithPrivateKey") =>
               /\ ret = Nil \/ ret[1] # "unable to reach SSH Agent"
               /\ (env.typed = KeyPassphrase /\ env.targetUp /\ env.cb = "ok") =>
                      ret = Nil

C13_Witness ==
    /\ Returned
    /\ entry = "ExecuteRemoteWithPrivateKey"
    /\ env.keyFile = "encrypted"
    /\ env.agent.status = "down"
    /\ Count("Dial:agent") = 1
    /\ Count("callback") = 1
    /\ ret = Nil

\* --------------------------------------------------------------------- C14
KeyFileEvents ==
    {"ReadFile:key", "ParsePrivateKey", "ParsePrivateKeyWithPassphrase",
     "ReadFile:pub", "ParseAuthorizedKey"}

AgentEvents == {"Dial:agent", "List", "Close:agent"}

Touches(events) == \E i \in 1..Len(log) : log[i] \in events

\* C14 as stated: resolving the auth method never touches the other
\* strategies' inputs: the password entry point never reads a key file,
\* dials the agent socket or prompts; the agent-delegated entry point never
\* reads a key file or prompts; the private-key entry point never dials the
\* ambient agent socket.
C14_StrategiesNeverShareInputs ==
    /\ entry = "ExecuteRemoteWithPassword" =>
           ~Touches(KeyFileEvents \cup AgentEvents \cup {"Prompt"})
    /\ entry = "ExecuteRemote" => ~Touches(KeyFileEvents \cup {"Prompt"})
    /\ entry = "ExecuteRemoteWithPrivateKey" => ~Touches(AgentEvents)

\* C14 as the code has it: the password entry point never reads a key file,
\* dials the agent socket or prompts; the agent-delegated entry point never
\* reads a key file or prompts; the private-key entry point dials the
\* ambient agent socket only when the key file is passphrase protected, and
\* then once.
C14_StrategiesShareOnlyAgentFallback ==
    /\ entry = "ExecuteRemoteWithPassword" =>
           /\ ~Touches(KeyFileEvents \cup AgentEvents \cup {"Prompt"})
           /\ agentSock = "none"
           /\ method = "password"
    /\ entry = "ExecuteRemote" =>
           /\ ~Touches(KeyFileEvents \cup {"Prompt"})
           /\ method \in {"none", "agent"}
    /\ entry = "ExecuteRemoteWithPrivateKey" =>
           /\ Touches(AgentEvents) => env.keyFile = "encrypted"
           /\ Count("Dial:agent") <= 1
           /\ method # "password"
           /\ (Finished /\ env.keyFile = "encrypted") => Count("Dial:agent") = 1

C14_Witness ==
    /\ Returned
    /\ entry = "ExecuteRemoteWithPrivateKey"
    /\ env.keyFile = "encrypted"
    /\ Count("Dial:agent") = 1
    /\ method = "publickey"
    /\ Count("callback") = 1

\* --------------------------------------------------------------------- C15
\* C15: a call opens a connection to the target host at most once and never
\* retries; a failure at any stage (key file unreadable, fatal parse error,
\* agent unreachable on the agent-delegated path, connection failure) ends
\* the call with nothing but deferred calls left to run, so the callback
\* runs at most once and only after the connection was opened.
FailedBeforeCallback ==
    \/ entry = "ExecuteRemoteWithPrivateKey" /\ Count("ReadFile:key") = 1
           /\ env.keyFile = "missing"
    \/ entry = "ExecuteRemoteWithPrivateKey" /\ Count("ParsePrivateKey") = 1
           /\ env.keyFile = "corrupt"
    \/ entry = "ExecuteRemoteWithPrivateKey"
           /\ Count("ParsePrivateKeyWithPassphrase") = 1
           /\ env.typed # KeyPassphrase
    \/ entry = "ExecuteRemote" /\ Count("Dial:agent") = 1
           /\ env.agent.status = "down"
    \/ entry \in RemoteEntries /\ Count("Dial:target") = 1 /\ ~env.targetUp

C15_OneAttemptNoRetry ==
    /\ Count("Dial:target") <= 1
    /\ Callbacks <= 1
    /\ (entry \in RemoteEntries /\ Callbacks = 1) =>
           /\ Count("callback:stale") = 0
           /\ Count("Dial:target") = 1
           /\ env.targetUp
           /\ conn # "none"
           /\ Index("Dial:target") < Index("callback")
    /\ FailedBeforeCallback =>
           /\ pc \in {"return", "done"}
           /\ ret # Nil
           /\ Callbacks = 0
           /\ conn = "none"
           /\ Count("Dial:target") = 0 \/ ~env.targetUp

C15_Witness ==
    /\ Returned
    /\ entry = "ExecuteRemoteWithPrivateKey"
    /\ env.keyFile = "plain"
    /\ ~env.targetUp
    /\ Count("Dial:target") = 1
    /\ Callbacks = 0

\* --------------------------------------------------------------------- C16
\* C16: ExecuteLocal has no connection lifecycle: it invokes the callback
\* exactly once, never reads a key file, dials the agent or the target,
\* prompts or closes anything, and returns exactly what the callback
\* returned.
C16_LocalIsCallbackOnly ==
    entry = "ExecuteLocal" =>
        /\ log \in {<< >>, <<"callback">>}
        /\ conn = "none"
        /\ agentSock = "none"
        /\ method = "none"
        /\ host = "" /\ port = 0
        /\ \A i \in 1..Len(stack) : stack[i].defers = << >>
        /\ Finished => log = <<"callback">>
        /\ (Returned /\ env.cb = "err") => ret = CallbackErr
        /\ (Returned /\ env.cb = "ok") => ret = Nil

C16_Witness ==
    /\ Returned
    /\ entry = "ExecuteLocal"
    /\ env.cb = "err"
    /\ ret = CallbackErr
    /\ log = <<"callback">>

\* --------------------------------------------------------------------- C17
\* C17: the connection handed to the callback is open whenever the callback
\* runs and closed once the remote entry point has returned: Close never
\* happens before or during the callback, and no connection is still open
\* after the entry point has returned or panicked.
C17_ConnectionOpenExactlyDuringCallback ==
    /\ Count("callback:stale") = 0
    /\ pc \in {"L149", "L151", "L100", "L102"} => conn = "open"
    /\ Count("Close:conn") > 0 =>
           /\ Count("callback") = 1
           /\ Index("callback") < Index("Close:conn")
           /\ conn = "closed"
    /\ Finished => conn # "open"

C17_Witness ==
    /\ Returned
    /\ entry = "ExecuteRemoteWithPassword"
    /\ env.cb = "ok"
    /\ log = <<"Dial:target", "callback", "Close:conn">>
    /\ conn = "closed"

\* --------------------------------------------------------------------- C18
\* C18: whenever the auth method of the connection is agent-delegated
\* signing (ExecuteRemote, or the match branch of
\* ExecuteRemoteWithPrivateKey), the agent socket behind it is open from
\* the moment the method is chosen through the handshake and the callback;
\* it is closed only after the connection attempt failed or the connection
\* was closed.
C18_AgentSocketOutlivesConnection ==
    method = "agent" =>
        /\ entry \in {"ExecuteRemote", "ExecuteRemoteWithPrivateKey"}
        /\ pc \in {"L73", "L143", "L149", "L151", "L94", "L100", "L102"} =>
               agentSock = "open"
        /\ conn = "open" => agentSock = "open"
        /\ Count("Close:agent") > 0 =>
               /\ Count("Dial:target") = 1
               /\ Index("Dial:target") < Index("Close:agent")
               /\ Callbacks > 0 => Index("callback") < Index("Close:agent")
               /\ conn = "none" => ~env.targetUp
               /\ conn # "none" =>
                      /\ conn = "closed"
                      /\ Index("Close:conn") < Index("Close:agent")

C18_Witness ==
    /\ Returned
    /\ entry = "ExecuteRemoteWithPrivateKey"
    /\ method = "agent"
    /\ log = <<"ReadFile:key", "ParsePrivateKey", "Dial:agent", "List",
               "ReadFile:pub", "ParseAuthorizedKey", "Dial:target", "callback",
               "Close:conn", "Close:agent">>

\* --------------------------------------------------------------------- C19
\* C19: in ExecuteRemote, once the agent socket has been dialled
\* successfully it is closed exactly once on every exit path (connection to
\* the target failing, callback succeeding, callback failing); when a
\* connection was opened, the connection is closed first and the agent
\* socket second.
C19_AgentSocketClosedOnceAndLast ==
    (entry = "ExecuteRemote" /\ env.agent.status # "down") =>
        /\ Count("Close:agent") <= 1
        /\ Count("Close:agent") = 1 => agentSock = "closed"
        /\ Finished =>
               /\ Count("Dial:agent") = 1
               /\ Count("Close:agent") = 1
               /\ log[Len(log)] = "Close:agent"
               /\ env.targetUp =>
                      /\ Count("Close:conn") = 1
                      /\ Index("Close:conn") < Index("Close:agent")
               /\ ~env.targetUp => Count("Close:conn") = 0

C19_Witness ==
    /\ Returned
    /\ entry = "ExecuteRemote"
    /\ env.cb = "err"
    /\ log = <<"Dial:agent", "Dial:target", "callback", "Close:conn", "Close:agent">>

C19_WitnessDialFailure ==
    /\ Returned
    /\ entry = "ExecuteRemote"
    /\ log = <<"Dial:agent", "Dial:target", "Close:agent">>
====
